---- MODULE Spec2Model ----
(***************************************************************************)
(* Model of lib/rules/newline-per-chained-call.js.                         *)
(*                                                                         *)
(* One statement holding one callee/object spine is linted: the host       *)
(* engine calls validateChainDepth on every MemberExpression on exit       *)
(* (inner nodes first), collects the reports, applies the reported fixes   *)
(* and lints the fixed text once more.                                     *)
(*                                                                         *)
(* Nodes are numbered along the spine: node 1 is the base identifier,      *)
(* node n+1 is the parent of node n, and the last two nodes are the        *)
(* ancestors of the outermost expression of the chain.  Tokens and         *)
(* comments are numbered together in source order; line[t] is the line     *)
(* item t starts on.  walk is the call of validateChainDepth in progress   *)
(* in the runs that take its loop one iteration at a time.                 *)
(***************************************************************************)
EXTENDS Integers, Sequences, FiniteSets, TLC

VARIABLES ast, tokens, line, options, pass, cursor, reports, applied, walk

vars == <<ast, tokens, line, options, pass, cursor, reports, applied, walk>>

\* Most member accesses above the base in a chain drawn by Init.
MaxLinks == 2

\* Largest configured ignoreChainWithDepth drawn by Init.
MaxDepth == 2

\* ignoreChainWithDepth when the option object does not carry it.
Undefined == -1

\* The depth taken when the configured one is falsy.
DefaultDepth == 2

\* No node: the value of .object / .callee on a node that has none.
Null == 0

----------------------------------------------------------------------------
(* The parsed tree and its tokens                                           *)

Type(n) == ast[n].type

Parent(n) == IF n < Len(ast) THEN n + 1 ELSE Null

\* node.object: only a MemberExpression has one.
ObjectOf(n) == IF Type(n) = "MemberExpression" THEN n - 1 ELSE Null

\* node.callee of a CallExpression.
Callee(n) == n - 1

\* astUtils.isNotClosingParenToken
isNotClosingParenToken(t) == tokens[t] # ")"

\* A comment: it is in the text but is not one of the tokens.
isCommentToken(t) == tokens[t] = "comment"

\* sourceCode.getTokenAfter(node, filter): the first token (comments are not
\* tokens) after the node's last token that passes the filter; Null when
\* there is none.  The filter is given as a function of the token.
getTokenAfter(n, filter) ==
    LET after == {t \in (ast[n].endTok + 1)..Len(tokens) :
                     ~isCommentToken(t) /\ filter[t]}
    IN  IF after = {} THEN Null
        ELSE CHOOSE t \in after : \A u \in after : t <= u

\* astUtils.isTokenOnSameLine(left, right): left ends on the line right starts on.
isTokenOnSameLine(leftEndTok, rightStartTok) ==
    line[leftEndTok] = line[rightStartTok]

----------------------------------------------------------------------------
(* create(context): the option defaulting                                   *)

\* `x || d` takes d when x is undefined and also when x is 0; the booleans
\* are defaulted by a typeof test and keep an explicit false.
create(opts) ==
    [ depthCalculationStyle |->
        IF opts.depthCalculationStyle = "undefined"
        THEN "perLine" ELSE opts.depthCalculationStyle,
      ignoreChainWithDepth |->
        IF opts.ignoreChainWithDepth = Undefined \/ opts.ignoreChainWithDepth = 0
        THEN DefaultDepth ELSE opts.ignoreChainWithDepth,
      includeBrackets    |->
        IF opts.includeBrackets = "undefined"
        THEN TRUE ELSE opts.includeBrackets = "true",
      includeMethodCalls |->
        IF opts.includeMethodCalls = "undefined"
        THEN TRUE ELSE opts.includeMethodCalls = "true",
      includeProperties  |->
        IF opts.includeProperties = "undefined"
        THEN FALSE ELSE opts.includeProperties = "true" ]

----------------------------------------------------------------------------
(* The rule                                                                 *)

\* An entry of memberExpressions.  A MemberExpression node is pushed as
\* itself (hasType); for any other node the code pushes the object literal
\* {object: currentNode.parent, property: currentNode}, which has no type.
MemberLink(n) ==
    [hasType |-> TRUE, node |-> n, object |-> ObjectOf(n),
     objectEnd |-> ast[ObjectOf(n)].endTok, propertyStart |-> ast[n].propTok]

SynthLink(n) ==
    [hasType |-> FALSE, node |-> n, object |-> Parent(n),
     objectEnd |-> ast[Parent(n)].endTok, propertyStart |-> ast[n].startTok]

hasObjectAndPropertyOnSameLine(link) ==
    isTokenOnSameLine(link.objectEnd, link.propertyStart)

\* Variant: every member access passes for the final one.
MutFinalAlways(node) == TRUE

isFinalMemberExpression(node) ==
    LET parent == IF Type(Parent(node)) = "CallExpression"
                  THEN Parent(Parent(node)) ELSE Parent(node)
    IN  Type(parent) \in {"ExpressionStatement", "VariableDeclarator"}

\* Variant: property accesses count whatever includeProperties says.
MutCountableWithoutIncludeProperties(p, currentNode) ==
    \/ p.includeMethodCalls /\ Type(Parent(currentNode)) = "CallExpression"
    \/ Type(Parent(currentNode)) \in
          {"MemberExpression", "ExpressionStatement", "VariableDeclarator"}

\* The test of the second branch of the loop (lines 154-165).
Countable(p, currentNode) ==
    \/ p.includeMethodCalls /\ Type(Parent(currentNode)) = "CallExpression"
    \/ /\ p.includeProperties
       /\ Type(Parent(currentNode)) \in
             {"MemberExpression", "ExpressionStatement", "VariableDeclarator"}

\* Variant: the push guard leaves out the test of computed.
MutPushBracketIdentifier(p, currentNode) ==
    p.includeBrackets \/ ast[currentNode].propertyType = "Identifier"

\* The test that guards memberExpressions.push(currentNode) (lines 167-172).
Pushable(p, currentNode) ==
    \/ p.includeBrackets
    \/ ast[currentNode].propertyType = "Identifier" /\ ~ast[currentNode].computed

\* Variant: the walk stops at a link that does not count under all as well.
RECURSIVE MutExtractStopsUnderAll(_, _, _, _)
MutExtractStopsUnderAll(p, node, currentNode, memberExpressions) ==
    IF currentNode = Null THEN memberExpressions
    ELSE IF Type(currentNode) = "CallExpression"
    THEN MutExtractStopsUnderAll(p, node, Callee(currentNode), memberExpressions)
    ELSE IF Countable(p, currentNode)
    THEN MutExtractStopsUnderAll(p, node, ObjectOf(currentNode),
             IF Type(currentNode) = "MemberExpression"
             THEN IF Pushable(p, currentNode)
                  THEN Append(memberExpressions, MemberLink(currentNode))
                  ELSE memberExpressions
             ELSE Append(memberExpressions, SynthLink(currentNode)))
    ELSE memberExpressions

\* Variant: no entry is pushed for a node that is not a member access.
RECURSIVE MutExtractWithoutBaseEntry(_, _, _, _)
MutExtractWithoutBaseEntry(p, node, currentNode, memberExpressions) ==
    IF currentNode = Null THEN memberExpressions
    ELSE IF Type(currentNode) = "CallExpression"
    THEN MutExtractWithoutBaseEntry(p, node, Callee(currentNode), memberExpressions)
    ELSE IF Countable(p, currentNode)
    THEN MutExtractWithoutBaseEntry(p, node, ObjectOf(currentNode),
             IF Type(currentNode) = "MemberExpression" /\ Pushable(p, currentNode)
             THEN Append(memberExpressions, MemberLink(currentNode))
             ELSE memberExpressions)
    ELSE IF p.depthCalculationStyle = "all" /\ isFinalMemberExpression(node)
    THEN MutExtractWithoutBaseEntry(p, node, ObjectOf(currentNode), memberExpressions)
    ELSE memberExpressions

\* The while loop of validateChainDepth (lines 151-191), from currentNode on.
RECURSIVE Extract(_, _, _, _)
Extract(p, node, currentNode, memberExpressions) ==
    IF currentNode = Null THEN memberExpressions
    ELSE IF Type(currentNode) = "CallExpression"
    THEN Extract(p, node, Callee(currentNode), memberExpressions)
    ELSE IF Countable(p, currentNode)
    THEN Extract(p, node, ObjectOf(currentNode),
                 IF Type(currentNode) = "MemberExpression"
                 THEN IF Pushable(p, currentNode)
                      THEN Append(memberExpressions, MemberLink(currentNode))
                      ELSE memberExpressions
                 ELSE Append(memberExpressions, SynthLink(currentNode)))
    ELSE IF p.depthCalculationStyle = "all" /\ isFinalMemberExpression(node)
    THEN Extract(p, node, ObjectOf(currentNode), memberExpressions)
    ELSE memberExpressions

\* The chain validateChainDepth(node) extracts.
Chain(p, node) == Extract(p, node, node, <<>>)

\* No call of validateChainDepth is in progress.
Idle ==
    [at |-> "idle", node |-> Null, currentNode |-> Null,
     memberExpressions |-> <<>>, iterations |-> 0]

\* validateChainDepth(node) at the top of its loop (lines 147-151).
Entered(node) ==
    [at |-> "loop", node |-> node, currentNode |-> node,
     memberExpressions |-> <<>>, iterations |-> 0]

\* Variant: under all a link that does not count leaves currentNode where
\* it is.
MutWhileBodyStaysUnderAll(p, w) ==
    LET currentNode == w.currentNode
        moved == [w EXCEPT !.iterations = @ + 1]
    IN  IF Type(currentNode) = "CallExpression"
        THEN [moved EXCEPT !.currentNode = Callee(currentNode)]
        ELSE IF Countable(p, currentNode)
        THEN [moved EXCEPT
                !.currentNode = ObjectOf(currentNode),
                !.memberExpressions =
                    IF Type(currentNode) = "MemberExpression"
                    THEN IF Pushable(p, currentNode)
                         THEN Append(@, MemberLink(currentNode))
                         ELSE @
                    ELSE Append(@, SynthLink(currentNode))]
        ELSE IF p.depthCalculationStyle = "all" /\ isFinalMemberExpression(w.node)
        THEN moved
        ELSE [moved EXCEPT !.at = "report"]

\* One iteration of the while loop (lines 152-190) on a currentNode that is
\* a node: the call after it.
whileBody(p, w) ==
    LET currentNode == w.currentNode
        moved == [w EXCEPT !.iterations = @ + 1]
    IN  IF Type(currentNode) = "CallExpression"
        THEN [moved EXCEPT !.currentNode = Callee(currentNode)]
        ELSE IF Countable(p, currentNode)
        THEN [moved EXCEPT
                !.currentNode = ObjectOf(currentNode),
                !.memberExpressions =
                    IF Type(currentNode) = "MemberExpression"
                    THEN IF Pushable(p, currentNode)
                         THEN Append(@, MemberLink(currentNode))
                         ELSE @
                    ELSE Append(@, SynthLink(currentNode))]
        ELSE IF p.depthCalculationStyle = "all" /\ isFinalMemberExpression(w.node)
        THEN [moved EXCEPT !.currentNode = ObjectOf(currentNode)]
        ELSE [moved EXCEPT !.at = "report"]

\* context.report for one link: the reported property's node, the visit that
\* reported it and the token the fix inserts "\n" before.
\* Variant: the newline goes after the reported access instead of before it.
MutReportInsertsAfterProperty(by, link) ==
    [by |-> by, node |-> link.node,
     token |-> getTokenAfter(link.node,
                   [t \in DOMAIN tokens |-> isNotClosingParenToken(t)])]

\* Variant: every fix of one call is computed from the visited node's object.
MutReportFixesAtVisitedNode(by, link) ==
    [by |-> by, node |-> link.node,
     token |-> getTokenAfter(ObjectOf(by),
                   [t \in DOMAIN tokens |-> isNotClosingParenToken(t)])]

\* Variant: getTokenAfter is called without the filter.
MutReportWithoutFilter(by, link) ==
    [by |-> by, node |-> link.node,
     token |-> getTokenAfter(link.object, [t \in DOMAIN tokens |-> TRUE])]

Report(by, link) ==
    [by |-> by, node |-> link.node,
     token |-> getTokenAfter(link.object,
                   [t \in DOMAIN tokens |-> isNotClosingParenToken(t)])]

\* Variant: the filter on type lets every entry through.
MutHasTypeAlways(link) == TRUE

\* .filter(({ type }) => type): the entry is a node of the tree.
HasType(link) == link.hasType

\* Variant: the comparison is >= instead of >.
MutThresholdNotStrict(p, n) == n >= p.ignoreChainWithDepth

\* memberExpressions.length > ignoreChainWithDepth
OverDepth(p, n) == n > p.ignoreChainWithDepth

RECURSIVE MapReport(_, _)
MapReport(by, links) ==
    IF links = <<>> THEN <<>>
    ELSE <<Report(by, Head(links))>> \o MapReport(by, Tail(links))

\* Variant: the perLine branch reports every one-line link of the chain.
MutPerLineReportsLikeAll(p, node) ==
    LET memberExpressions == Chain(p, node)
    IN  IF /\ p.depthCalculationStyle = "perLine"
           /\ OverDepth(p, Len(memberExpressions))
           /\ hasObjectAndPropertyOnSameLine(MemberLink(node))
        THEN MapReport(node,
                 SelectSeq(SelectSeq(memberExpressions, HasType),
                           hasObjectAndPropertyOnSameLine))
        ELSE <<>>

\* The reports of the perLine branch (lines 222-245).
PerLineReports(p, node) ==
    LET memberExpressions == Chain(p, node)
    IN  IF /\ p.depthCalculationStyle = "perLine"
           /\ OverDepth(p, Len(memberExpressions))
           /\ hasObjectAndPropertyOnSameLine(MemberLink(node))
        THEN <<Report(node, MemberLink(node))>>
        ELSE <<>>

\* Variant: the all branch leaves out the second filter.
MutAllReportsIgnoreLines(p, node) ==
    LET memberExpressions == Chain(p, node)
    IN  IF /\ p.depthCalculationStyle = "all"
           /\ isFinalMemberExpression(node)
           /\ OverDepth(p, Len(memberExpressions))
           /\ \E i \in 1..Len(memberExpressions) :
                 hasObjectAndPropertyOnSameLine(memberExpressions[i])
        THEN MapReport(node, SelectSeq(memberExpressions, HasType))
        ELSE PerLineReports(p, node)

\* The reports of one call of validateChainDepth(node) (lines 193-245), in
\* the order they are made.
validateChainDepth(p, node) ==
    LET memberExpressions == Chain(p, node)
    IN  IF /\ p.depthCalculationStyle = "all"
           /\ isFinalMemberExpression(node)
           /\ OverDepth(p, Len(memberExpressions))
           /\ \E i \in 1..Len(memberExpressions) :
                 hasObjectAndPropertyOnSameLine(memberExpressions[i])
        THEN MapReport(node,
                 SelectSeq(SelectSeq(memberExpressions, HasType),
                           hasObjectAndPropertyOnSameLine))
        ELSE PerLineReports(p, node)

----------------------------------------------------------------------------
(* Building the trees Init draws                                            *)

\* How one link of the chain is written: a dot access, a dot access already
\* on a line of its own, a bracket access with a bare identifier key, one
\* with an expression key; each either a plain access or called.
Accesses == {"dot", "dotNl", "brId", "brExpr"}

Forms == [access : Accesses, called : BOOLEAN]

\* Accesses written with a comment: in front of the dot, or after it.
CommentAccesses == {"commentDot", "dotComment"}

AccessTokens(a) ==
    CASE a \in {"dot", "dotNl"} -> <<".", "name">>
      [] a = "brId"             -> <<"[", "name", "]">>
      [] a = "brExpr"           -> <<"[", "string", "+", "name", "]">>
      [] a = "commentDot"       -> <<"comment", ".", "name">>
      [] a = "dotComment"       -> <<".", "comment", "name">>

\* Line breaks written in front of each token of the access.
AccessBreaks(a) ==
    CASE a = "dot"    -> <<0, 0>>
      [] a = "dotNl"  -> <<1, 0>>
      [] a = "brId"   -> <<0, 0, 0>>
      [] a = "brExpr" -> <<0, 0, 0, 0, 0>>
      [] a \in CommentAccesses -> <<0, 0, 0>>

\* Where the property starts among the tokens of the access.
PropertyOffset(a) == IF a \in CommentAccesses THEN 2 ELSE 1

\* The base is an identifier: bare, called, or written in parentheses.
BaseForms == {"name", "name()", "(name)"}

IdentifierNode(tok) ==
    [ type |-> "Identifier", computed |-> FALSE, propertyType |-> "none",
      startTok |-> tok, endTok |-> tok, propTok |-> Null ]

CallNode(start, end) ==
    [ type |-> "CallExpression", computed |-> FALSE, propertyType |-> "none",
      startTok |-> start, endTok |-> end, propTok |-> Null ]

MemberNode(a, start, first) ==
    [ type         |-> "MemberExpression",
      computed     |-> a \in {"brId", "brExpr"},
      propertyType |-> IF a = "brExpr" THEN "BinaryExpression" ELSE "Identifier",
      startTok     |-> start,
      endTok       |-> first + Len(AccessTokens(a)) - 1,
      propTok      |-> first + PropertyOffset(a) ]

AncestorNode(type) ==
    [ type |-> type, computed |-> FALSE, propertyType |-> "none",
      startTok |-> 1, endTok |-> 1, propTok |-> Null ]

\* The source so far: its nodes, its tokens and the breaks before them.
BaseSource(b) ==
    CASE b = "name"   -> [ ast |-> <<IdentifierNode(1)>>,
                           tokens |-> <<"name">>, breaks |-> <<0>> ]
      [] b = "name()" -> [ ast |-> <<IdentifierNode(1), CallNode(1, 3)>>,
                           tokens |-> <<"name", "(", ")">>, breaks |-> <<0, 0, 0>> ]
      [] b = "(name)" -> [ ast |-> <<IdentifierNode(2)>>,
                           tokens |-> <<"(", "name", ")">>, breaks |-> <<0, 0, 0>> ]

\* The source with one more link written after it.
AddLink(src, f) ==
    LET first  == Len(src.tokens) + 1
        member == MemberNode(f.access, 1, first)
    IN  IF f.called
        THEN [ ast    |-> src.ast \o <<member, CallNode(1, member.endTok + 2)>>,
               tokens |-> src.tokens \o AccessTokens(f.access) \o <<"(", ")">>,
               breaks |-> src.breaks \o AccessBreaks(f.access) \o <<0, 0>> ]
        ELSE [ ast    |-> Append(src.ast, member),
               tokens |-> src.tokens \o AccessTokens(f.access),
               breaks |-> src.breaks \o AccessBreaks(f.access) ]

RECURSIVE AddLinks(_, _)
AddLinks(src, forms) ==
    IF forms = <<>> THEN src
    ELSE AddLinks(AddLink(src, Head(forms)), Tail(forms))

RECURSIVE RunningSum(_)
RunningSum(s) ==
    IF s = <<>> THEN <<>>
    ELSE LET front == RunningSum(SubSeq(s, 1, Len(s) - 1))
         IN  Append(front, (IF front = <<>> THEN 0 ELSE front[Len(front)]) + s[Len(s)])

\* The line each token starts on, from the breaks written before the tokens.
LinesOf(breaks) ==
    LET sums == RunningSum(breaks)
    IN  [t \in 1..Len(breaks) |-> 1 + sums[t]]

\* The ancestors of the outermost expression of the chain: it is a whole
\* expression statement, the initializer of a declarator, the argument of a
\* return statement, or an argument of a call that is a statement.
Outers ==
    { <<"ExpressionStatement", "Program">>,
      <<"VariableDeclarator", "VariableDeclaration">>,
      <<"ReturnStatement", "BlockStatement">>,
      <<"CallExpression", "ExpressionStatement">> }

Chains == UNION {[1..n -> Forms] : n \in 1..MaxLinks}

TriState == {"undefined", "true", "false"}

\* The option objects the schema admits that Init draws: every field given,
\* the depth possibly left out, or the empty object.
OptionObjects ==
    { o \in [ depthCalculationStyle : {"undefined", "all", "perLine"},
              ignoreChainWithDepth  : {Undefined} \cup 0..MaxDepth,
              includeBrackets       : TriState,
              includeMethodCalls    : TriState,
              includeProperties     : TriState ] :
        LET given == { o.depthCalculationStyle, o.includeBrackets,
                       o.includeMethodCalls, o.includeProperties }
        IN  \/ "undefined" \notin given
            \/ given = {"undefined"} /\ o.ignoreChainWithDepth = Undefined }

\* Chains written with comments around the dot, for the runs that look at
\* where the fixes land.
LayoutForms == [access : {"dot", "brId"} \cup CommentAccesses, called : BOOLEAN]

LayoutChains == UNION {[1..n -> LayoutForms] : n \in 1..MaxLinks}

\* The option objects of those runs: brackets and method calls included,
\* a depth of 1 or more.
LayoutOptions ==
    { o \in OptionObjects : /\ o.includeBrackets = "true"
                            /\ o.includeMethodCalls = "true"
                            /\ o.ignoreChainWithDepth >= 1 }

----------------------------------------------------------------------------
(* The linting run                                                          *)

Policy == create(options)

\* The member accesses of the chain; the last two nodes are its ancestors.
MemberNodes == {n \in 2..(Len(ast) - 2) : Type(n) = "MemberExpression"}

\* The MemberExpression nodes still to exit in this pass, inner first.
Pending == {n \in MemberNodes : n >= cursor}

Init ==
    \E b \in BaseForms, forms \in Chains, outer \in Outers, o \in OptionObjects :
        LET src == AddLinks(BaseSource(b), forms)
        IN  /\ ast = src.ast \o [j \in 1..Len(outer) |-> AncestorNode(outer[j])]
            /\ tokens = src.tokens
            /\ line = LinesOf(src.breaks)
            /\ options = o
            /\ pass = 1
            /\ cursor = 2
            /\ reports = <<>>
            /\ applied = <<>>
            /\ walk = Idle

\* "MemberExpression:exit": the next member access of the traversal exits
\* and validateChainDepth runs on it.
MemberExpressionExit ==
    /\ Pending # {}
    /\ LET node == CHOOSE n \in Pending : \A m \in Pending : n <= m
       IN  /\ reports' = reports \o validateChainDepth(Policy, node)
           /\ cursor' = node + 1
    /\ UNCHANGED <<ast, tokens, line, options, pass, applied, walk>>

\* The host applies the fixes of the first pass, each the insertion of "\n"
\* before its token (two insertions at one position count once), and lints
\* the result again.
ApplyFixes ==
    /\ pass = 1
    /\ Pending = {}
    /\ LET at == {reports[i].token : i \in 1..Len(reports)}
       IN  line' = [t \in 1..Len(line) |->
                       line[t] + Cardinality({u \in at : u <= t})]
    /\ applied' = reports
    /\ reports' = <<>>
    /\ cursor' = 2
    /\ pass' = 2
    /\ UNCHANGED <<ast, tokens, options, walk>>

Next == MemberExpressionExit \/ ApplyFixes

Spec == Init /\ [][Next]_vars

\* The same run over the chains written with comments.
InitLayout ==
    \E b \in BaseForms, forms \in LayoutChains, outer \in Outers, o \in LayoutOptions :
        LET src == AddLinks(BaseSource(b), forms)
        IN  /\ ast = src.ast \o [j \in 1..Len(outer) |-> AncestorNode(outer[j])]
            /\ tokens = src.tokens
            /\ line = LinesOf(src.breaks)
            /\ options = o
            /\ pass = 1
            /\ cursor = 2
            /\ reports = <<>>
            /\ applied = <<>>
            /\ walk = Idle

SpecLayout == InitLayout /\ [][Next]_vars

\* The runs that take the loop of validateChainDepth one iteration at a
\* time.  The loop does not read the depth or the layout.
WalkOptions == {o \in OptionObjects : o.ignoreChainWithDepth = Undefined}

WalkChains ==
    UNION {[1..n -> [access : {"dot", "brId"}, called : BOOLEAN]] : n \in 1..MaxLinks}

InitWalk ==
    \E b \in BaseForms, forms \in WalkChains, outer \in Outers, o \in WalkOptions :
        LET src == AddLinks(BaseSource(b), forms)
        IN  /\ ast = src.ast \o [j \in 1..Len(outer) |-> AncestorNode(outer[j])]
            /\ tokens = src.tokens
            /\ line = LinesOf(src.breaks)
            /\ options = o
            /\ pass = 1
            /\ cursor = 2
            /\ reports = <<>>
            /\ applied = <<>>
            /\ walk = Idle

\* "MemberExpression:exit": the next member access exits and
\* validateChainDepth is entered on it.
WalkEnter ==
    /\ walk.at = "idle"
    /\ Pending # {}
    /\ walk' = Entered(CHOOSE n \in Pending : \A m \in Pending : n <= m)
    /\ UNCHANGED <<ast, tokens, line, options, pass, cursor, reports, applied>>

\* The loop test and, when currentNode is a node, one iteration.  The
\* guard on iterations keeps a loop that does not end within the model.
WalkIterate ==
    /\ walk.at = "loop"
    /\ walk.iterations <= Len(ast)
    /\ walk' = IF walk.currentNode = Null
               THEN [walk EXCEPT !.at = "report"]
               ELSE whileBody(Policy, walk)
    /\ UNCHANGED <<ast, tokens, line, options, pass, cursor, reports, applied>>

\* The loop is over: the reports are made and the call returns.
WalkReturn ==
    /\ walk.at = "report"
    /\ reports' = reports \o validateChainDepth(Policy, walk.node)
    /\ cursor' = walk.node + 1
    /\ walk' = Idle
    /\ UNCHANGED <<ast, tokens, line, options, pass, applied>>

NextWalk == WalkEnter \/ WalkIterate \/ WalkReturn

\* A call that was entered goes on: the engine is single-threaded and runs
\* the handler to its end.
SpecWalk == InitWalk /\ [][NextWalk]_vars /\ WF_vars(NextWalk)

----------------------------------------------------------------------------
(* Properties                                                               *)

\* The member accesses that have exited in this pass.
Visited == {n \in MemberNodes : n < cursor}

\* The reports made by the call of validateChainDepth on node n in this pass.
ReportsBy(n) ==
    LET By(r) == r.by = n
    IN  SelectSeq(reports, By)

\* The nodes whose property is reported by the call on node n in this pass.
ReportedBy(n) == {reports[i].node : i \in {j \in 1..Len(reports) : reports[j].by = n}}

\* The pass is over: every member access has exited.
WalkDone == Pending = {}

\* Object and property of member access n are on one line, read off the tokens.
OnOneLine(n) == line[ast[n - 1].endTok] = line[ast[n].propTok]

\* C1: under either style, a call of validateChainDepth whose extracted chain
\* is no longer than the effective ignoreChainWithDepth reports nothing,
\* whatever the layout; a chain of exactly that depth never reports.
C1_NoReportUpToDepth ==
    \A n \in Visited :
        Len(Chain(Policy, n)) <= Policy.ignoreChainWithDepth => ReportsBy(n) = <<>>

\* C1 witness: a one-line access whose chain is exactly as long as the
\* effective depth has exited and reported nothing.
C1_Witness ==
    \E n \in Visited :
        /\ Len(Chain(Policy, n)) = Policy.ignoreChainWithDepth
        /\ OnOneLine(n)
        /\ ReportsBy(n) = <<>>

\* C2: under perLine one call of validateChainDepth reports at most once; it
\* reports exactly when the chain extracted from the visited node is longer
\* than ignoreChainWithDepth and the node's own object and property are on
\* one line, and the report is for the visited node's own property.
C2_PerLineReportsOwnLink ==
    Policy.depthCalculationStyle = "perLine" =>
        \A n \in Visited :
            LET fires == /\ Len(Chain(Policy, n)) > Policy.ignoreChainWithDepth
                         /\ OnOneLine(n)
            IN  /\ Len(ReportsBy(n)) = (IF fires THEN 1 ELSE 0)
                /\ ReportedBy(n) \subseteq {n}

\* C2 witness: under perLine an inner access of an over-deep one-line chain
\* has reported itself while the access beneath it reported nothing.
C2_Witness ==
    /\ Policy.depthCalculationStyle = "perLine"
    /\ \E n, m \in Visited :
          /\ m < n
          /\ OnOneLine(m)
          /\ ReportsBy(m) = <<>>
          /\ ReportedBy(n) = {n}
          /\ Len(Chain(Policy, n)) > 1

\* The parent of n, after unwrapping one enclosing call, is an
\* ExpressionStatement or a VariableDeclarator.
StatementLevel(n) ==
    \/ ast[n + 1].type \in {"ExpressionStatement", "VariableDeclarator"}
    \/ /\ ast[n + 1].type = "CallExpression"
       /\ ast[n + 2].type \in {"ExpressionStatement", "VariableDeclarator"}

\* C3: under all, over the visits of every member access of the tree, only
\* the call on the final member expression of a statement reports, and no
\* link is reported more than once in the whole walk.
C3_AllReportsOnceFromFinal ==
    Policy.depthCalculationStyle = "all" =>
        /\ \A i \in 1..Len(reports) : StatementLevel(reports[i].by)
        /\ \A i, j \in 1..Len(reports) :
              reports[i].node = reports[j].node => i = j

\* C3 witness: under all the walk of a chain of two member accesses is over
\* and both links were reported.
C3_Witness ==
    /\ Policy.depthCalculationStyle = "all"
    /\ WalkDone
    /\ Cardinality(MemberNodes) >= 2
    /\ Len(reports) >= 2

\* C4 as claimed: under all, when the call on a final member expression has
\* a chain longer than ignoreChainWithDepth with some link on one line, every
\* entry of the chain whose object and property share a line is reported and
\* no entry on different lines is.
C4_Original ==
    Policy.depthCalculationStyle = "all" =>
        \A n \in Visited :
            LET chain == Chain(Policy, n)
            IN  ( /\ StatementLevel(n)
                  /\ Len(chain) > Policy.ignoreChainWithDepth
                  /\ \E i \in 1..Len(chain) :
                        line[chain[i].objectEnd] = line[chain[i].propertyStart] )
                => \A i \in 1..Len(chain) :
                      (chain[i].node \in ReportedBy(n))
                      <=> (line[chain[i].objectEnd] = line[chain[i].propertyStart])

\* C4 amended: under all, when the call on a final member expression has a
\* chain longer than ignoreChainWithDepth with some entry on one line, the
\* reported links are exactly the member accesses of the chain whose object
\* and property share a line; the entry synthesized for the base is not
\* reported even when it is on one line.
C4_AllReportsSameLineMembers ==
    Policy.depthCalculationStyle = "all" =>
        \A n \in Visited :
            LET chain == Chain(Policy, n)
            IN  ( /\ StatementLevel(n)
                  /\ Len(chain) > Policy.ignoreChainWithDepth
                  /\ \E i \in 1..Len(chain) :
                        line[chain[i].objectEnd] = line[chain[i].propertyStart] )
                => ReportedBy(n) =
                      { chain[i].node : i \in
                          { j \in 1..Len(chain) :
                              /\ ast[chain[j].node].type = "MemberExpression"
                              /\ OnOneLine(chain[j].node) } }

\* C4 witness: under all a final member expression with an over-deep chain
\* has exited; one of its links is on one line and reported, another is on a
\* line of its own and not reported.
C4_Witness ==
    /\ Policy.depthCalculationStyle = "all"
    /\ \E n \in Visited :
          /\ StatementLevel(n)
          /\ Len(Chain(Policy, n)) > Policy.ignoreChainWithDepth
          /\ \E a, b \in MemberNodes :
                /\ OnOneLine(a) /\ a \in ReportedBy(n)
                /\ ~OnOneLine(b) /\ b \notin ReportedBy(n)

\* C5: idempotence: once every fix reported by one analysis is applied, the
\* analysis of the result reports nothing.
C5_FixedTextReportsNothing ==
    pass = 2 => reports = <<>>

\* C5 witness: the first pass reported links, their fixes were applied and
\* the second pass is over.
C5_Witness ==
    /\ pass = 2
    /\ WalkDone
    /\ Len(applied) >= 2
    /\ reports = <<>>

\* The nodes reported by one walk of the tree under the option object opts.
WalkReports(opts) ==
    UNION { LET made == validateChainDepth(create(opts), n)
            IN  {made[i].node : i \in 1..Len(made)} : n \in MemberNodes }

\* The nodes reported so far in this pass.
Reported == {reports[i].node : i \in 1..Len(reports)}

\* C6: threshold monotonicity: for a fixed tree and fixed other options, for
\* every configured k >= 0 the violations reported with ignoreChainWithDepth
\* k include those reported with ignoreChainWithDepth k + 1.
C6_ThresholdMonotone ==
    (pass = 1 /\ WalkDone /\ options.ignoreChainWithDepth # Undefined) =>
        WalkReports([options EXCEPT !.ignoreChainWithDepth = @ + 1]) \subseteq Reported

\* C7: the effective depth is the configured ignoreChainWithDepth for every
\* allowed value, 0 included, and the default only when the option is
\* absent; so with ignoreChainWithDepth 0 a chain of one countable one-line
\* link is reported.
C7_EffectiveDepthIsConfigured ==
    Visited # {} =>
        /\ Policy.ignoreChainWithDepth =
              (IF options.ignoreChainWithDepth = Undefined
               THEN DefaultDepth ELSE options.ignoreChainWithDepth)
        /\ (options.ignoreChainWithDepth = 0 /\ Policy.depthCalculationStyle = "perLine") =>
              \A n \in Visited :
                  (Len(Chain(Policy, n)) = 1 /\ OnOneLine(n)) => n \in ReportedBy(n)

\* C8: with includeBrackets false a computed access whose key is not a bare
\* identifier is never reported, under either style and whatever the depth
\* of the chain beneath it.
C8_NoExpressionBracketReported ==
    ~Policy.includeBrackets =>
        \A i \in 1..Len(reports) :
            ~( /\ ast[reports[i].node].computed
               /\ ast[reports[i].node].propertyType # "Identifier" )

WithBrackets(b) == create([options EXCEPT !.includeBrackets = b])

\* C9 as claimed: the chain compared against ignoreChainWithDepth is as long
\* with includeBrackets false as with includeBrackets true, for every tree.
C9_Original ==
    \A n \in Visited :
        Len(Chain(WithBrackets("false"), n)) = Len(Chain(WithBrackets("true"), n))

NotComputed(link) == ~(link.hasType /\ ast[link.node].computed)

\* C9 amended: with includeBrackets false a bracketed access is not put on
\* the chain and does not count toward its length: the chain is the chain
\* extracted with includeBrackets true with its computed accesses left out.
C9_BracketsLeftOutOfChain ==
    \A n \in Visited :
        Chain(WithBrackets("false"), n)
            = SelectSeq(Chain(WithBrackets("true"), n), NotComputed)

\* C9 witness: with includeBrackets false a member access has exited whose
\* chain is not empty and is shorter than it is with includeBrackets true.
C9_Witness ==
    /\ ~Policy.includeBrackets
    /\ \E n \in Visited :
          /\ Len(Chain(Policy, n)) >= 1
          /\ Len(Chain(Policy, n)) < Len(Chain(WithBrackets("true"), n))

\* A statement on one line of the shape base.m()[k](): a dot method call and
\* then a bracketed method call off an identifier.
DotThenBracketCall ==
    /\ Len(ast) = 7
    /\ ast[1].type = "Identifier" /\ tokens[1] = "name"
    /\ ast[2].type = "MemberExpression" /\ ~ast[2].computed
    /\ ast[3].type = "CallExpression"
    /\ ast[4].type = "MemberExpression" /\ ast[4].computed
    /\ ast[5].type = "CallExpression"
    /\ ast[6].type \in {"ExpressionStatement", "VariableDeclarator"}
    /\ \A t \in 1..Len(line) : line[t] = 1

\* C10: with depthCalculationStyle all, ignoreChainWithDepth 1,
\* includeBrackets false and includeProperties true, a one-line statement
\* base.m()[k]() yields no violation.
C10_DotThenBracketCallIsClean ==
    ( /\ DotThenBracketCall
      /\ WalkDone
      /\ Policy = [ depthCalculationStyle |-> "all", ignoreChainWithDepth |-> 1,
                    includeBrackets |-> FALSE, includeMethodCalls |-> TRUE,
                    includeProperties |-> TRUE ] )
    => reports = <<>>

\* A statement on one line of the shape base.m1().m2(): two dot method calls
\* off an identifier.
TwoDotCalls ==
    /\ Len(ast) = 7
    /\ ast[1].type = "Identifier" /\ tokens[1] = "name"
    /\ ast[2].type = "MemberExpression" /\ ~ast[2].computed
    /\ ast[3].type = "CallExpression"
    /\ ast[4].type = "MemberExpression" /\ ~ast[4].computed
    /\ ast[5].type = "CallExpression"
    /\ ast[6].type \in {"ExpressionStatement", "VariableDeclarator"}
    /\ \A t \in 1..Len(line) : line[t] = 1

\* C11: the chain length is the number of countable member accesses between
\* the statement and the base, the base adding nothing: with
\* depthCalculationStyle all, ignoreChainWithDepth 2, includeBrackets false
\* and includeProperties true, the chain of a one-line statement
\* base.m1().m2() has length two and the statement yields no violation.
C11_TwoDotCallsAreClean ==
    ( /\ TwoDotCalls
      /\ WalkDone
      /\ Policy = [ depthCalculationStyle |-> "all", ignoreChainWithDepth |-> 2,
                    includeBrackets |-> FALSE, includeMethodCalls |-> TRUE,
                    includeProperties |-> TRUE ] )
    => /\ Len(Chain(Policy, 4)) = 2
       /\ reports = <<>>

\* The default policy: perLine, depth 2, method calls counted, properties not.
DefaultPolicy ==
    /\ Policy.depthCalculationStyle = "perLine"
    /\ Policy.ignoreChainWithDepth = DefaultDepth
    /\ Policy.includeMethodCalls
    /\ ~Policy.includeProperties

\* The chain holds no call: plain property accesses off a bare base.
NoCallInChain == \A n \in 1..(Len(ast) - 2) : ast[n].type # "CallExpression"

\* C12: under the default options a chain of plain property accesses that
\* holds no call never produces a violation, whatever its length and layout.
C12_PropertyChainIsClean ==
    (DefaultPolicy /\ NoCallInChain) => reports = <<>>

\* C12 witness: under the default options the walk of a one-line chain of
\* the most property accesses drawn, with no call, is over without a report.
C12_Witness ==
    /\ DefaultPolicy
    /\ NoCallInChain
    /\ pass = 1
    /\ WalkDone
    /\ Cardinality(MemberNodes) = MaxLinks
    /\ \A t \in 1..Len(line) : line[t] = 1
    /\ reports = <<>>

\* A statement-level chain written on one line under perLine, every member
\* access of which passes the countability test; the first pass is over.
OneLinePerLineChain ==
    /\ Policy.depthCalculationStyle = "perLine"
    /\ ast[Len(ast) - 1].type \in {"ExpressionStatement", "VariableDeclarator"}
    /\ \A m \in MemberNodes : Countable(Policy, m)
    /\ \A t \in 1..Len(line) : line[t] = 1
    /\ pass = 1
    /\ WalkDone

\* 1 when the walk pushes an entry for the base, else 0.
BaseEntries == IF Countable(Policy, 1) THEN 1 ELSE 0

\* The position of member access m counted from the base, every member
\* access taking a position.
PositionOf(m) == BaseEntries + Cardinality({k \in MemberNodes : k <= m})

\* The entries from the base up to and including member access m: the
\* base's entry and the member accesses the push guard lets through.
EntriesUpTo(m) ==
    BaseEntries + Cardinality({k \in MemberNodes : k <= m /\ Pushable(Policy, k)})

ObjectEnd(n) == ast[n - 1].endTok

\* What may stand between an object and the token the newline goes before.
SkippedByFix(t) == tokens[t] \in {")", "comment"}

\* C14: for every reported violation, in either style, the fix inserts one
\* newline immediately before the first token after the reported link's
\* object that is not a closing parenthesis; the closing parentheses and
\* comments between the object and that token stay on the object's line, in
\* front of the newline.
C14_FixLandsAfterObject ==
    /\ \A i \in 1..Len(reports) :
          LET r == reports[i]
          IN  /\ r.token \in (ObjectEnd(r.node) + 1)..ast[r.node].propTok
              /\ ~SkippedByFix(r.token)
              /\ \A u \in (ObjectEnd(r.node) + 1)..(r.token - 1) : SkippedByFix(u)
    /\ \A i \in 1..Len(applied) :
          LET r == applied[i]
          IN  /\ line[r.token] = line[r.token - 1] + 1
              /\ \A u \in ObjectEnd(r.node)..(r.token - 1) :
                    line[u] = line[ObjectEnd(r.node)]

\* C14 witness: the fix of a reported access was applied where a closing
\* parenthesis and a comment stand between the object and the dot.
C14_Witness ==
    \E i \in 1..Len(applied) :
        LET r == applied[i]
        IN  /\ r.token = ObjectEnd(r.node) + 3
            /\ tokens[r.token - 2] = ")"
            /\ tokens[r.token - 1] = "comment"
            /\ tokens[r.token] = "."

\* fixer.insertTextBefore(token, "\n") applied to the text alone: the token,
\* found by its position before any edit, and all that follows it move down
\* one line.
insertTextBefore(lines, token) ==
    [t \in DOMAIN lines |-> IF t >= token THEN lines[t] + 1 ELSE lines[t]]

\* The fixes of the reports rs applied one after the other, in the order
\* order[1], order[2], ...
RECURSIVE ApplyInOrder(_, _, _)
ApplyInOrder(lines, rs, order) ==
    IF order = <<>> THEN lines
    ELSE ApplyInOrder(insertTextBefore(lines, rs[Head(order)].token), rs, Tail(order))

\* Every order the n fixes can be applied in.
Orders(n) == {o \in [1..n -> 1..n] : \A i, j \in 1..n : o[i] = o[j] => i = j}

\* C15: the fixes reported in one analysis are independent: two reports for
\* distinct links insert before distinct tokens, each token found by its
\* position before any edit, and the text the host produces from them is the
\* text any order of applying the insertions one by one produces.
C15_FixesAreIndependent ==
    [][ (pass = 1 /\ pass' = 2) =>
          /\ \A i, j \in 1..Len(reports) :
                reports[i].node # reports[j].node => reports[i].token # reports[j].token
          /\ \A o \in Orders(Len(reports)) :
                line' = ApplyInOrder(line, reports, o) ]_vars

\* C15 witness: the fixes of two reports made in one analysis were applied
\* and put two newlines before two tokens.
C15_Witness ==
    /\ pass = 2
    /\ Len(applied) = 2
    /\ applied[1].token # applied[2].token
    /\ line[applied[1].token] # line[applied[2].token]

\* The nodes of the spine from the base up to n that are not calls.
LinksUpTo(n) == {k \in 1..n : Type(k) # "CallExpression"}

\* The contiguous run of countable links that starts at n and goes toward
\* the base: it ends at the first link that does not pass the test.
RunFrom(n) ==
    {k \in LinksUpTo(n) :
        \A j \in LinksUpTo(n) : j >= k => Countable(Policy, j)}

\* The nodes of the entries of the chain extracted from n.
ChainNodes(n) ==
    LET chain == Chain(Policy, n)
    IN  {chain[i].node : i \in 1..Len(chain)}

\* The link is appended when the walk passes it: the base always, a member
\* access when the push guard lets it through.
Appended(k) == k = 1 \/ Pushable(Policy, k)

\* C16 as claimed: under perLine the chain is only the contiguous run of
\* countable links from the visited node; under all, from the final member
\* expression of a statement, the chain holds every countable link of the
\* spine.
C16_Original ==
    \A n \in Visited :
        /\ Policy.depthCalculationStyle = "perLine" =>
              ChainNodes(n) \subseteq RunFrom(n)
        /\ (Policy.depthCalculationStyle = "all" /\ StatementLevel(n)) =>
              {k \in LinksUpTo(n) : Countable(Policy, k)} \subseteq ChainNodes(n)

\* C16: the chain is, outer first, under perLine the links of the contiguous
\* run of countable links from the visited node, and under all from the
\* final member expression of a statement the countable links of the whole
\* spine, in both cases without the bracketed accesses when includeBrackets
\* is false; the links under all that do not count are passed and left out.
C16_WalkByStyle ==
    \A n \in Visited :
        LET chain == Chain(Policy, n)
        IN  /\ \A i, j \in 1..Len(chain) : i < j => chain[i].node > chain[j].node
            /\ Policy.depthCalculationStyle = "perLine" =>
                  ChainNodes(n) = {k \in RunFrom(n) : Appended(k)}
            /\ (Policy.depthCalculationStyle = "all" /\ StatementLevel(n)) =>
                  ChainNodes(n) =
                      {k \in LinksUpTo(n) : Countable(Policy, k) /\ Appended(k)}

\* C16 witness: under all the final member expression has exited; a link
\* beneath it does not count and a link beneath that one is on its chain.
C16_Witness ==
    /\ Policy.depthCalculationStyle = "all"
    /\ \E n \in Visited :
          /\ StatementLevel(n)
          /\ \E k \in MemberNodes, j \in ChainNodes(n) :
                j < k /\ k < n /\ ~Countable(Policy, k)

\* The chain extracted from n holds the entry synthesized for the base.
HasBaseEntry(n) == 1 \in ChainNodes(n)

\* The member accesses on the chain extracted from n.
ChainMembers(n) == ChainNodes(n) \ {1}

C18_WalkTerminates ==
    /\ [](walk.at # "idle" =>
            /\ walk.iterations <= walk.node
            /\ walk.at = "loop" => walk.currentNode = walk.node - walk.iterations
            /\ walk.at = "report" => walk.memberExpressions = Chain(Policy, walk.node))
    /\ (walk.at = "loop") ~> (walk.at = "report")

\* C18 witness: under all a call on the final member expression has left
\* its loop after as many iterations as the spine has nodes, the last of
\* them on a link that does not count.
C18_Witness ==
    /\ walk.at = "report"
    /\ Policy.depthCalculationStyle = "all"
    /\ walk.iterations = walk.node
    /\ walk.node > 2
    /\ ~Countable(Policy, 1)

====
